---- MODULE Spec2Model ----
(***************************************************************************)
(* The Service Calls Dashboard of src/app.py as a state machine.           *)
(*                                                                         *)
(* The script runs top to bottom on every page load and again after every  *)
(* user interaction with a widget.  The state is the spreadsheet handed to *)
(* load_data, the user's inputs that the session keeps between runs, and   *)
(* what the last run of the script put on the page.                        *)
(*                                                                         *)
(* A Python str is a sequence of one-character strings, so that strip,     *)
(* upper, lower, split, "in" and the ordering of sorted() are computed and *)
(* not assumed.                                                            *)
(***************************************************************************)
EXTENDS Integers, Sequences, FiniteSets, TLC

VARIABLES
    sheet,          \* the spreadsheet: [columns, rows], as pd.read_excel reads it
    pc,             \* "idle" | "stopped" | "crashed" | "rendered"
    error,          \* what st.error and st.write showed before st.stop()
    df,             \* the normalised data frame of the last run
    sel_customers,  \* what the three dropdown filters returned in the last run
    sel_techs,
    sel_statuses,
    d1,             \* the date range of the last run
    d2,
    trend_mode,     \* the View selectbox
    dff,            \* the filtered set
    kpi,            \* [completed, not_attended]
    status_counts,  \* the table handed to the pie chart: <<[STATUS, COUNT], ...>>
    tmp,            \* the trend chart's rows, each with its PERIOD
    xorder,         \* the trend chart's period keys, in axis order
    ticktext,       \* the trend chart's tick labels
    rates,          \* the leaderboard's table: technician -> [TOTAL, COMPLETED]
    order,          \* the leaderboard's technician order
    options,        \* one dropdown on its own: the options it is called with,
    ss,             \*   its st.session_state: [has_all, all, keys, on, q],
    visible,        \*   the options its last run rendered,
    selected        \*   and what its last run returned

outputs == <<df, sel_customers, sel_techs, sel_statuses, d1, d2, trend_mode,
             dff, kpi, status_counts, tmp, xorder, ticktext, rates, order>>

page == <<pc, error, outputs>>

widget == <<options, ss, visible, selected>>

vars == <<sheet, page, widget>>

----------------------------------------------------------------------------
(* Bounds of the model. *)

MaxRows == 2

----------------------------------------------------------------------------
(* Text. *)

Alphabet ==
    <<" ", "(", ")", "-", ".", "0", "1", "2", "3", "4", "5", "6", "7", "8", "9",
      "A", "B", "C", "D", "E", "F", "G", "H", "I", "J", "K", "L", "M", "N", "O",
      "P", "Q", "R", "S", "T", "U", "V", "W", "X", "Y", "Z", "_",
      "a", "b", "c", "d", "e", "f", "g", "h", "i", "j", "k", "l", "m", "n", "o",
      "p", "q", "r", "s", "t", "u", "v", "w", "x", "y", "z">>

\* The code point order of the characters, as far as sorting needs it.
OrdTable ==
    [c \in {Alphabet[i] : i \in DOMAIN Alphabet} |->
        CHOOSE i \in DOMAIN Alphabet : Alphabet[i] = c]

Ord(c) == OrdTable[c]

IsSpace(c) == c = " "

upper_char(c) ==
    IF Ord(c) >= Ord("a") /\ Ord(c) <= Ord("z")
    THEN Alphabet[Ord(c) - (Ord("a") - Ord("A"))]
    ELSE c

lower_char(c) ==
    IF Ord(c) >= Ord("A") /\ Ord(c) <= Ord("Z")
    THEN Alphabet[Ord(c) + (Ord("a") - Ord("A"))]
    ELSE c

upper(s) == [i \in DOMAIN s |-> upper_char(s[i])]

lower(s) == [i \in DOMAIN s |-> lower_char(s[i])]

RECURSIVE lstrip(_)
lstrip(s) ==
    IF s # <<>> /\ IsSpace(Head(s)) THEN lstrip(Tail(s)) ELSE s

RECURSIVE rstrip(_)
rstrip(s) ==
    IF s # <<>> /\ IsSpace(s[Len(s)]) THEN rstrip(SubSeq(s, 1, Len(s) - 1)) ELSE s

strip(s) == rstrip(lstrip(s))

\* str.split(): the maximal runs of non-whitespace characters.
RECURSIVE split(_)
split(s) ==
    LET t == lstrip(s)
        ends == {i \in 1..Len(t) : IsSpace(t[i])}
        n == IF ends = {} THEN Len(t) + 1
             ELSE CHOOSE i \in ends : \A j \in ends : i <= j
    IN  IF t = <<>> THEN <<>>
        ELSE <<SubSeq(t, 1, n - 1)>> \o split(SubSeq(t, n, Len(t)))

\* " ".join(words)
RECURSIVE join(_)
join(words) ==
    IF words = <<>> THEN <<>>
    ELSE IF Len(words) = 1 THEN words[1]
    ELSE words[1] \o <<" ">> \o join(Tail(words))

\* sub in s
contains(sub, s) ==
    \E i \in 0..(Len(s) - Len(sub)) : SubSeq(s, i + 1, i + Len(sub)) = sub

\* a < b for two str, as Python compares them
str_lt(a, b) ==
    \E i \in 1..(Len(a) + 1) :
        /\ \A j \in 1..(i - 1) : j <= Len(b) /\ a[j] = b[j]
        /\ \/ i = Len(a) + 1 /\ Len(b) >= i
           \/ i <= Len(a) /\ i <= Len(b) /\ Ord(a[i]) < Ord(b[i])

InList(x, list) == \E i \in DOMAIN list : list[i] = x

Range(list) == {list[i] : i \in DOMAIN list}

\* Series.unique(): the values in order of first appearance
RECURSIVE unique(_)
unique(list) ==
    IF list = <<>> THEN <<>>
    ELSE LET init == unique(SubSeq(list, 1, Len(list) - 1))
             x == list[Len(list)]
         IN  IF InList(x, init) THEN init ELSE Append(init, x)

\* The stable ascending sort behind sorted(): pairs <<key, value>> by key.
RECURSIVE sort_pairs(_)
sort_pairs(pairs) ==
    IF pairs = <<>> THEN <<>>
    ELSE LET init == sort_pairs(SubSeq(pairs, 1, Len(pairs) - 1))
             x == pairs[Len(pairs)]
             \* x goes after every element whose key is not greater than its own
             n == Cardinality({i \in DOMAIN init : ~str_lt(x[1], init[i][1])})
         IN  SubSeq(init, 1, n) \o <<x>> \o SubSeq(init, n + 1, Len(init))

\* sorted(list, key=...), keys[i] being the key of list[i]
sorted(list, keys) ==
    LET s == sort_pairs([i \in DOMAIN list |-> <<keys[i], list[i]>>])
    IN  [i \in DOMAIN s |-> s[i][2]]

----------------------------------------------------------------------------
(* Cell values.  An empty cell reads as NaN, an unparseable date parses to *)
(* NaT, and normalize_text returns None.                                   *)

NaN == <<"NaN">>
None == <<"None">>
NaT == <<>>

\* str(x) of a cell
str(x) == IF x = NaN THEN <<"n", "a", "n">> ELSE x

isna(x) == x = NaN \/ x = None

S_DATE == <<"D", "A", "T", "E">>
S_CUSTOMER == <<"C", "U", "S", "T", "O", "M", "E", "R">>
S_CALL_STATUS == <<"C", "A", "L", "L", " ", "S", "T", "A", "T", "U", "S">>
S_TECH_1 == <<"T", "E", "C", "H", " ", "1">>
S_TD_REPORT_NO == <<"T", "D", " ", "R", "E", "P", "O", "R", "T", " ", "N", "O", ".">>
S_COMPLETED == <<"C", "O", "M", "P", "L", "E", "T", "E", "D">>
S_ATTENDED == <<"A", "T", "T", "E", "N", "D", "E", "D">>
S_NOT_ATTENDED == <<"N", "O", "T", " ", "A", "T", "T", "E", "N", "D", "E", "D">>
S_BLANK == <<"B", "L", "A", "N", "K">>
S_All == <<"A", "l", "l">>

----------------------------------------------------------------------------
(* Helpers of the script. *)

\* " ".join(str(c).strip().upper().split())
norm_name(c) == join(split(upper(strip(c))))

\* load_data: the sheet with its column names normalised
load_data_columns(s) == {norm_name(c) : c \in s.columns}

aliases(want_n) ==
    CASE want_n = S_CALL_STATUS ->
        <<<<"S", "T", "A", "T", "U", "S">>,
          <<"C", "A", "L", "L", "S", "T", "A", "T", "U", "S">>,
          <<"C", "A", "L", "L", "_", "S", "T", "A", "T", "U", "S">>,
          <<"C", "A", "L", "L", " ", " ", "S", "T", "A", "T", "U", "S">>,
          <<"C", "A", "L", "L", "-", "S", "T", "A", "T", "U", "S">>>>
      [] want_n = S_TECH_1 ->
        <<<<"T", "E", "C", "H", "1">>,
          <<"T", "E", "C", "H", " ", " ", "1">>,
          <<"T", "E", "C", "H", "N", "I", "C", "I", "A", "N">>,
          <<"T", "E", "C", "H">>>>
      [] want_n = S_TD_REPORT_NO ->
        <<<<"T", "D", " ", "R", "E", "P", "O", "R", "T", " ", "N", "O">>,
          <<"T", "D", "_", "R", "E", "P", "O", "R", "T", "_", "N", "O">>,
          <<"R", "E", "P", "O", "R", "T", " ", "N", "O">>,
          <<"R", "E", "P", "O", "R", "T", " ", "N", "O", ".">>>>
      [] want_n = S_DATE ->
        <<<<"C", "A", "L", "L", " ", "D", "A", "T", "E">>,
          <<"S", "E", "R", "V", "I", "C", "E", " ", "D", "A", "T", "E">>>>
      [] want_n = S_CUSTOMER ->
        <<<<"C", "L", "I", "E", "N", "T">>,
          <<"C", "U", "S", "T", "O", "M", "E", "R", " ", "N", "A", "M", "E">>>>
      [] OTHER -> <<>>

\* The names ensure_col is asked for, and each alias as the loop normalises it.
Wanted == {S_DATE, S_CUSTOMER, S_CALL_STATUS, S_TECH_1, S_TD_REPORT_NO}

alias_names ==
    [w \in Wanted |-> [i \in DOMAIN aliases(w) |-> norm_name(aliases(w)[i])]]

\* ensure_col(df, want): the column of df that matches want or one of its
\* aliases, the first alias in list order; None when there is none.
ensure_col(columns, want) ==
    LET want_n == norm_name(want)
        al == IF want_n \in Wanted THEN alias_names[want_n] ELSE <<>>
        hits == {i \in DOMAIN al : al[i] \in columns}
    IN  IF want_n \in columns THEN want_n
        ELSE IF hits # {} THEN al[CHOOSE i \in hits : \A j \in hits : i <= j]
        ELSE None

BlankTexts ==
    <<<<"N", "A", "N">>, <<>>, <<"N", "O", "N", "E">>, <<"N", "U", "L", "L">>,
      <<"(", "B", "L", "A", "N", "K", ")">>>>

normalize_status(s) ==
    LET t == upper(strip(str(s)))
    IN  IF InList(t, BlankTexts) THEN S_BLANK ELSE t

normalize_text(x) ==
    IF isna(x) THEN None
    ELSE LET t == strip(str(x)) IN IF t # <<>> THEN t ELSE None

----------------------------------------------------------------------------
(* Load and normalise: the script down to its sidebar. *)

NoList == <<None>>      \* None where a list of options is expected

\* The five ensure_col calls.
resolve(columns) ==
    [date     |-> ensure_col(columns, S_DATE),
     customer |-> ensure_col(columns, S_CUSTOMER),
     status   |-> ensure_col(columns, S_CALL_STATUS),
     tech     |-> ensure_col(columns, S_TECH_1),
     call_id  |-> ensure_col(columns, S_TD_REPORT_NO)]

\* The check of the required names that looks at the date only.
missing_date_only(real) ==
    IF real.date = None THEN <<S_DATE>> ELSE <<>>

\* The required names that resolved to None.
missing(real) ==
    LET req == <<<<S_DATE, real.date>>, <<S_CUSTOMER, real.customer>>,
                 <<S_CALL_STATUS, real.status>>>>
        gone == SelectSeq(req, LAMBDA p : p[2] = None)
    IN  [i \in DOMAIN gone |-> gone[i][1]]

\* pd.to_datetime(errors="coerce") and dropna on the date, then the three
\* normalisations.  idx is the row's index label, which dropna keeps.
normalise(s, real) ==
    LET rows == [i \in DOMAIN s.rows |->
                    [idx |-> i, date |-> s.rows[i].date,
                     customer |-> s.rows[i].customer,
                     status |-> s.rows[i].status, tech |-> s.rows[i].tech]]
        kept == SelectSeq(rows, LAMBDA r : r.date # NaT)
    IN  [i \in DOMAIN kept |->
            [idx      |-> kept[i].idx,
             date     |-> kept[i].date,
             status   |-> normalize_status(kept[i].status),
             customer |-> normalize_text(kept[i].customer),
             tech     |-> IF real.tech # None
                          THEN normalize_text(kept[i].tech)
                          ELSE kept[i].tech]]

\* df[name]
column(f, name) == [i \in DOMAIN f |-> f[i][name]]

dropna(list) == SelectSeq(list, LAMBDA x : ~isna(x))

customer_options(f) == unique(dropna(column(f, "customer")))

tech_options(f) == unique(dropna(column(f, "tech")))

status_options(f) == unique(dropna(column(f, "status")))

----------------------------------------------------------------------------
(* dropdown_checkbox_filter.  st is the part of st.session_state under the *)
(* dropdown's key prefix before the run: whether the "All" key is there    *)
(* and its value, the option keys that are there (keys) and those of them  *)
(* that are True (on), and the search text q.  The result is the returned  *)
(* list, the options rendered, and the session state after the run.        *)

\* The options as the dropdown lists them: without None, by lower-case text.
sorted_options(opts) ==
    LET present == SelectSeq(opts, LAMBDA o : o # None)
    IN  sorted(present, [i \in DOMAIN present |-> lower(str(present[i]))])

\* The options the title summary counts as selected: the key's value, or
\* default_all for an option without a key.
checked(opts, default_all, st) ==
    {o \in Range(sorted_options(opts)) :
        IF o \in st.keys THEN o \in st.on ELSE default_all}

\* dropdown_checkbox_filter with an "All" toggle that forces no checkbox.
dropdown_checkbox_filter_unforced(opts, default_all, st) ==
    LET present == sorted_options(opts)
        select_all == IF st.has_all THEN st.all ELSE default_all
        qn == lower(strip(st.q))
        vis == IF st.q # <<>>
               THEN SelectSeq(present, LAMBDA o : contains(qn, lower(str(o))))
               ELSE present
        fresh == {o \in Range(vis) : o \notin st.keys}
        on0 == st.on \cup (IF default_all THEN fresh ELSE {})
        chosen == SelectSeq(vis, LAMBDA o : o \in on0)
    IN  [ret     |-> IF chosen # <<>> THEN chosen ELSE present,
         visible |-> vis,
         ss      |-> [has_all |-> TRUE, all |-> select_all,
                      keys |-> st.keys \cup Range(vis), on |-> on0, q |-> st.q]]

dropdown_checkbox_filter(opts, default_all, st) ==
    LET present == sorted_options(opts)
        select_all == IF st.has_all THEN st.all ELSE default_all
        qn == lower(strip(st.q))
        vis == IF st.q # <<>>
               THEN SelectSeq(present, LAMBDA o : contains(qn, lower(str(o))))
               ELSE present
        fresh == {o \in Range(vis) : o \notin st.keys}
        on0 == st.on \cup (IF default_all THEN fresh ELSE {})
        on1 == IF select_all THEN on0 \cup Range(vis) ELSE on0
        chosen == SelectSeq(vis, LAMBDA o : o \in on1)
    IN  [ret     |-> IF chosen # <<>> THEN chosen ELSE present,
         visible |-> vis,
         ss      |-> [has_all |-> TRUE, all |-> select_all,
                      keys |-> st.keys \cup Range(vis), on |-> on1, q |-> st.q]]

\* A session that has not run the dropdown yet.
EmptySession == [has_all |-> FALSE, all |-> FALSE, keys |-> {}, on |-> {}, q |-> <<>>]

----------------------------------------------------------------------------
(* Dates are <<year, month, day>>. *)

date_le(a, b) ==
    \/ a[1] < b[1]
    \/ a[1] = b[1] /\ a[2] < b[2]
    \/ a[1] = b[1] /\ a[2] = b[2] /\ a[3] <= b[3]

min_date(f) == CHOOSE a \in {f[i].date : i \in DOMAIN f} :
                   \A i \in DOMAIN f : date_le(a, f[i].date)

max_date(f) == CHOOSE a \in {f[i].date : i \in DOMAIN f} :
                   \A i \in DOMAIN f : date_le(f[i].date, a)

digit(k) == Alphabet[Ord("0") + k]

\* str(n) of an int n >= 0
RECURSIVE digits(_)
digits(n) == IF n < 10 THEN <<digit(n)>> ELSE digits(n \div 10) \o <<digit(n % 10)>>

\* int(s) of a str of digits
RECURSIVE to_int(_)
to_int(s) ==
    IF s = <<>> THEN 0
    ELSE 10 * to_int(SubSeq(s, 1, Len(s) - 1)) + (Ord(s[Len(s)]) - Ord("0"))

RECURSIVE zfill(_, _)
zfill(s, width) == IF Len(s) < width THEN zfill(<<"0">> \o s, width) ELSE s

is_leap(y) == y % 4 = 0 /\ (y % 100 # 0 \/ y % 400 = 0)

days_in_month(y, m) ==
    IF m = 2 THEN (IF is_leap(y) THEN 29 ELSE 28)
    ELSE IF m \in {4, 6, 9, 11} THEN 30 ELSE 31

RECURSIVE days_before_month(_, _)
days_before_month(y, m) ==
    IF m = 1 THEN 0 ELSE days_before_month(y, m - 1) + days_in_month(y, m - 1)

days_before_year(y) ==
    (y - 1) * 365 + ((y - 1) \div 4) - ((y - 1) \div 100) + ((y - 1) \div 400)

toordinal(a) == days_before_year(a[1]) + days_before_month(a[1], a[2]) + a[3]

\* The ordinal of the Monday that starts ISO week 1 of year y.
isoweek1monday(y) ==
    LET firstday == toordinal(<<y, 1, 1>>)
        firstweekday == (firstday + 6) % 7
        monday == firstday - firstweekday
    IN  IF firstweekday > 3 THEN monday + 7 ELSE monday

\* dt.isocalendar(): [year, week]
isocalendar(a) ==
    LET today == toordinal(a)
        week == (today - isoweek1monday(a[1])) \div 7
    IN  IF today < isoweek1monday(a[1])
        THEN [year |-> a[1] - 1,
              week |-> ((today - isoweek1monday(a[1] - 1)) \div 7) + 1]
        ELSE IF week >= 52 /\ today >= isoweek1monday(a[1] + 1)
        THEN [year |-> a[1] + 1, week |-> 1]
        ELSE [year |-> a[1], week |-> week + 1]

\* The PERIOD of a date in each view.
period_day(a) ==
    zfill(digits(a[1]), 4) \o <<"-">> \o zfill(digits(a[2]), 2)
        \o <<"-">> \o zfill(digits(a[3]), 2)

period_week(a) ==
    digits(isocalendar(a).year) \o <<"-", "W">> \o zfill(digits(isocalendar(a).week), 2)

\* A month key that leaves the year out.
period_month_of_year(a) == zfill(digits(a[2]), 2)

period_month(a) == zfill(digits(a[1]), 4) \o <<"-">> \o zfill(digits(a[2]), 2)

period(mode, a) ==
    CASE mode = "Total" -> S_All
      [] mode = "Day"   -> period_day(a)
      [] mode = "Week"  -> period_week(a)
      [] OTHER          -> period_month(a)

month_abbr ==
    <<<<"J", "a", "n">>, <<"F", "e", "b">>, <<"M", "a", "r">>, <<"A", "p", "r">>,
      <<"M", "a", "y">>, <<"J", "u", "n">>, <<"J", "u", "l">>, <<"A", "u", "g">>,
      <<"S", "e", "p">>, <<"O", "c", "t">>, <<"N", "o", "v">>, <<"D", "e", "c">>>>

\* pd.to_datetime(p + "-01").strftime("%b") of a "YYYY-MM" key
month_label(p) == month_abbr[to_int(SubSeq(p, Len(p) - 1, Len(p)))]

----------------------------------------------------------------------------
(* Filter, KPIs and charts. *)

\* (series == x).sum()
count(list, x) == Cardinality({i \in DOMAIN list : list[i] = x})

\* The filter mask of one row without its customer test.
mask_without_customer(r, selc, selt, sels, a, b) ==
    /\ date_le(a, r.date) /\ date_le(r.date, b)
    /\ ((selt # NoList /\ selt # <<>>) => InList(r.tech, selt))
    /\ (sels # <<>> => InList(r.status, sels))

\* The filter mask of one row.
mask(r, selc, selt, sels, a, b) ==
    /\ date_le(a, r.date) /\ date_le(r.date, b)
    /\ (selc # <<>> => InList(r.customer, selc))
    /\ ((selt # NoList /\ selt # <<>>) => InList(r.tech, selt))
    /\ (sels # <<>> => InList(r.status, sels))

filtered(f, selc, selt, sels, a, b) ==
    SelectSeq(f, LAMBDA r : mask(r, selc, selt, sels, a, b))

status_order == <<S_COMPLETED, S_ATTENDED, S_NOT_ATTENDED>>

\* chart_base with BLANK hidden whatever the user selected.
chart_base_hide_blank(ff, sels) ==
    SelectSeq(ff, LAMBDA r : r.status # S_BLANK)

\* BLANK is hidden from the charts unless the user selected it.
chart_base(ff, sels) ==
    IF InList(S_BLANK, unique(column(ff, "status"))) /\ ~InList(S_BLANK, sels)
    THEN SelectSeq(ff, LAMBDA r : r.status # S_BLANK)
    ELSE ff

chart_status_order(sels) ==
    LET selected_set == IF sels # <<>> THEN Range(sels) ELSE {}
        main == SelectSeq(status_order, LAMBDA s : s \in selected_set)
        extras == SelectSeq(sels, LAMBDA s : ~InList(s, main))
    IN  main \o extras

\* value_counts().reindex(chart_status_order).fillna(0)
pie_counts(cb, sels) ==
    LET cso == chart_status_order(sels)
    IN  [i \in DOMAIN cso |->
            [STATUS |-> cso[i], COUNT |-> count(column(cb, "status"), cso[i])]]

full_range(f, a, b) == a = min_date(f) /\ b = max_date(f)

default_mode(f, a, b) == IF full_range(f, a, b) THEN "Total" ELSE "Month"

with_period(cb, mode) ==
    [i \in DOMAIN cb |->
        [idx |-> cb[i].idx, date |-> cb[i].date, status |-> cb[i].status,
         customer |-> cb[i].customer, tech |-> cb[i].tech,
         PERIOD |-> period(mode, cb[i].date)]]

trend_xorder(t, mode) ==
    IF mode = "Total" THEN <<S_All>>
    ELSE sorted(unique(column(t, "PERIOD")), unique(column(t, "PERIOD")))

trend_ticktext(xs, mode) ==
    IF mode \in {"Total", "Day", "Week"} THEN xs
    ELSE [i \in DOMAIN xs |-> month_label(xs[i])]

\* totals and completed per technician, joined and filled with 0; groupby
\* leaves out the rows without a technician.
tech_rates(cb) ==
    [t \in Range(dropna(column(cb, "tech"))) |->
        [TOTAL     |-> count(column(cb, "tech"), t),
         COMPLETED |-> count(column(SelectSeq(cb, LAMBDA r : r.status = S_COMPLETED), "tech"), t)]]

\* COMP_RATE of x >= COMP_RATE of y, the quotients compared exactly
rate_ge(x, y) ==
    LET dx == IF x.TOTAL # 0 THEN x.TOTAL ELSE 1
        dy == IF y.TOTAL # 0 THEN y.TOTAL ELSE 1
    IN  x.COMPLETED * dy >= y.COMPLETED * dx

\* sort_values("COMP_RATE", ascending=False) with the default quicksort, which
\* is not stable: every order that is descending in the rate.
tech_orders(rt) ==
    LET n == Cardinality(DOMAIN rt)
    IN  {o \in [1..n -> DOMAIN rt] :
            /\ \A i, j \in 1..n : i # j => o[i] # o[j]
            /\ \A i, j \in 1..n : i < j => rate_ge(rt[o[i]], rt[o[j]])}

----------------------------------------------------------------------------
(* One run of the script from the sidebar's results on: the filter, the    *)
(* KPIs, the pie, the trend and the leaderboard.  selc, selt and sels are  *)
(* what the three dropdowns returned, a0 and b0 the two date inputs, mode  *)
(* the View selectbox.                                                     *)

Render(selc, selt, sels, a0, b0, mode) ==
    \E real \in {resolve(load_data_columns(sheet))} :
    \E f \in {normalise(sheet, real)} :
    \E a \in {IF date_le(a0, b0) THEN a0 ELSE b0} :
    \E b \in {IF date_le(a0, b0) THEN b0 ELSE a0} :
    \E ff \in {filtered(f, selc, selt, sels, a, b)} :
    \E cb \in {chart_base(ff, sels)} :
    \E t \in {IF cb = <<>> THEN <<>> ELSE with_period(cb, mode)} :
    \E xs \in {IF cb = <<>> THEN <<>> ELSE trend_xorder(t, mode)} :
    \E rt \in {IF real.tech # None /\ cb # <<>> THEN tech_rates(cb) ELSE tech_rates(<<>>)} :
        /\ pc' = "rendered"
        /\ UNCHANGED error
        /\ df' = f
        /\ sel_customers' = selc
        /\ sel_techs' = selt
        /\ sel_statuses' = sels
        /\ d1' = a
        /\ d2' = b
        /\ trend_mode' = mode
        /\ dff' = ff
        /\ kpi' = [completed    |-> count(column(ff, "status"), S_COMPLETED),
                   not_attended |-> count(column(ff, "status"), S_NOT_ATTENDED)]
        /\ status_counts' = pie_counts(cb, sels)
        /\ tmp' = t
        /\ xorder' = xs
        /\ ticktext' = trend_ticktext(xs, mode)
        /\ rates' = rt
        /\ order' \in tech_orders(rt)

NoError == [missing |-> <<>>, available |-> {}]

\* default_end = min(max_d, max(min_d, today))
default_end(min_d, max_d, today) ==
    IF date_le(max_d, IF date_le(min_d, today) THEN today ELSE min_d)
    THEN max_d
    ELSE IF date_le(min_d, today) THEN today ELSE min_d

\* The dates a user picks from: those of the sheet and one before them all.
Epoch == <<2024, 12, 31>>

Calendar(s) == ({s.rows[i].date : i \in DOMAIN s.rows} \ {NaT}) \cup {Epoch}

Searches == {<<>>, <<"a">>, <<" ", "Z">>}

\* The session states a dropdown over opts can be in when a run starts.
Sessions(opts) ==
    [has_all : {TRUE}, all : BOOLEAN, keys : {Range(opts)},
     on : SUBSET Range(opts), q : Searches]

\* What the dropdown over opts can return to the script.
Selections(opts) ==
    {dropdown_checkbox_filter(opts, TRUE, st).ret : st \in Sessions(opts)}

\* The View selectbox has no key: it keeps the user's choice as long as its
\* default index is the same, and starts from its default again when the
\* date range changes default_mode.
mode_after(a, b) ==
    IF default_mode(df, a, b) = default_mode(df, d1, d2)
    THEN trend_mode
    ELSE default_mode(df, a, b)

\* The page is opened: the first run of a session, every widget at its
\* default.  The run stops when a required column does not resolve and ends
\* in an exception when no row has a date (the frame has no date range to
\* offer the date inputs).
Load ==
    /\ pc = "idle"
    /\ \E today \in Calendar(sheet) :
       \E real \in {resolve(load_data_columns(sheet))} :
       \E f \in {normalise(sheet, real)} :
           IF missing(real) # <<>>
           THEN /\ pc' = "stopped"
                /\ error' = [missing |-> missing(real),
                             available |-> load_data_columns(sheet)]
                /\ UNCHANGED outputs
           ELSE IF f = <<>>
           THEN /\ pc' = "crashed"
                /\ UNCHANGED <<error, outputs>>
           ELSE \E selc \in {dropdown_checkbox_filter(customer_options(f), TRUE,
                                                     EmptySession).ret} :
                \E selt \in {IF real.tech # None
                             THEN dropdown_checkbox_filter(tech_options(f), TRUE,
                                                           EmptySession).ret
                             ELSE NoList} :
                \E sels \in {dropdown_checkbox_filter(status_options(f), TRUE,
                                                     EmptySession).ret} :
                \E min_d \in {min_date(f)} :
                \E end \in {default_end(min_d, max_date(f), today)} :
                \E mode \in {default_mode(f, min_d, end)} :
                    Render(selc, selt, sels, min_d, end, mode)
    /\ UNCHANGED <<sheet, widget>>

\* The user works the Customer dropdown (search, All, checkboxes) and the
\* script runs again.
CustomerFilter ==
    /\ pc = "rendered"
    /\ \E sel \in Selections(customer_options(df)) :
           Render(sel, sel_techs, sel_statuses, d1, d2, trend_mode)
    /\ UNCHANGED <<sheet, widget>>

TechFilter ==
    /\ pc = "rendered"
    /\ sel_techs # NoList
    /\ \E sel \in Selections(tech_options(df)) :
           Render(sel_customers, sel, sel_statuses, d1, d2, trend_mode)
    /\ UNCHANGED <<sheet, widget>>

StatusFilter ==
    /\ pc = "rendered"
    /\ \E sel \in Selections(status_options(df)) :
           Render(sel_customers, sel_techs, sel, d1, d2, trend_mode)
    /\ UNCHANGED <<sheet, widget>>

DateInput ==
    /\ pc = "rendered"
    /\ \E a, b \in Calendar(sheet) :
       \E mode \in {mode_after(IF date_le(a, b) THEN a ELSE b,
                               IF date_le(a, b) THEN b ELSE a)} :
           Render(sel_customers, sel_techs, sel_statuses, a, b, mode)
    /\ UNCHANGED <<sheet, widget>>

ViewSelect ==
    /\ pc = "rendered"
    /\ \E m \in {"Total", "Day", "Week", "Month"} :
           Render(sel_customers, sel_techs, sel_statuses, d1, d2, m)
    /\ UNCHANGED <<sheet, widget>>

Next == Load \/ CustomerFilter \/ TechFilter \/ StatusFilter \/ DateInput \/ ViewSelect

----------------------------------------------------------------------------
(* The sheets the specifications start from. *)

H_Date == <<"D", "a", "t", "e">>
H_CallDate == <<" ", "c", "a", "l", "l", " ", " ", "d", "a", "t", "e", " ">>
H_Customer == <<"C", "u", "s", "t", "o", "m", "e", "r">>
H_Client == <<"c", "l", "i", "e", "n", "t">>
H_CallStatus == <<"C", "a", "l", "l", " ", "S", "t", "a", "t", "u", "s">>
H_Status == <<"s", "t", "a", "t", "u", "s">>
H_Tech1 == <<"T", "e", "c", "h", " ", "1">>
H_Report == <<"T", "D", " ", "R", "e", "p", "o", "r", "t", " ", "N", "o", ".">>
H_Notes == <<"N", "o", "t", "e", "s">>

T_Acme == <<"A", "c", "m", "e">>
T_bolt == <<"b", "o", "l", "t">>
T_Zed == <<"Z", "e", "d">>
T_Spaces == <<" ", " ">>
T_Ann == <<"A", "n", "n">>
T_Bob == <<"B", "o", "b">>
T_CompletedSuccessfully ==
    <<"C", "o", "m", "p", "l", "e", "t", "e", "d", " ",
      "S", "u", "c", "c", "e", "s", "s", "f", "u", "l", "l", "y">>
T_completed == <<" ", "c", "o", "m", "p", "l", "e", "t", "e", "d", " ">>
T_NotAttended == <<"N", "o", "t", " ", "A", "t", "t", "e", "n", "d", "e", "d">>
T_Attended == <<"A", "t", "t", "e", "n", "d", "e", "d">>

FullColumns == {H_Date, H_Customer, H_CallStatus, H_Tech1, H_Report}

SeqsUpTo(S, n) == UNION {[1..k -> S] : k \in 0..n}

Sheets(Columns, Dates, Customers, Statuses, Techs, n) ==
    [columns : Columns,
     rows : SeqsUpTo([date : Dates, customer : Customers,
                      status : Statuses, tech : Techs], n)]

\* No filter widget, KPI, chart or table on the page.
NothingRendered ==
    /\ df = <<>>
    /\ sel_customers = <<>>
    /\ sel_techs = <<>>
    /\ sel_statuses = <<>>
    /\ d1 = NaT
    /\ d2 = NaT
    /\ trend_mode = "Total"
    /\ dff = <<>>
    /\ kpi = [completed |-> 0, not_attended |-> 0]
    /\ status_counts = <<>>
    /\ tmp = <<>>
    /\ xorder = <<>>
    /\ ticktext = <<>>
    /\ rates = tech_rates(<<>>)
    /\ order = <<>>

\* Before the first run.
Fresh ==
    /\ pc = "idle"
    /\ error = NoError
    /\ NothingRendered

\* No dropdown looked at on its own.
NoWidget ==
    /\ options = <<>>
    /\ ss = EmptySession
    /\ visible = <<>>
    /\ selected = <<>>

\* Sheets that differ in their status texts and dates.
Init ==
    /\ sheet \in Sheets({FullColumns},
                        {<<2026, 1, 15>>},
                        {T_Acme},
                        {T_CompletedSuccessfully, T_completed, NaN, T_NotAttended},
                        {T_Ann},
                        MaxRows)
    /\ Fresh
    /\ NoWidget

Spec == Init /\ [][Next]_vars

----------------------------------------------------------------------------
(* Claims about the statuses, the pie and the empty selection, under Spec. *)

S_OTHER == <<"O", "T", "H", "E", "R">>
S_COMPLETE == <<"C", "O", "M", "P", "L", "E", "T", "E">>

\* The status cell a row of the frame was read from.
raw_status(r) == sheet.rows[r.idx].status

\* "COMPLETE" occurs in the raw status text, in any letter case.
mentions_complete(x) == contains(S_COMPLETE, upper(str(x)))

RECURSIVE total(_)
total(counts) ==
    IF counts = <<>> THEN 0 ELSE counts[1].COUNT + total(Tail(counts))

\* C1: after normalisation every record's status is one of ATTENDED,
\* COMPLETED, NOT ATTENDED and OTHER, in the frame and in the filtered set.
\* BLANK, the name the code gives its catch-all, is accepted here in place
\* of OTHER, so that only a status outside every closed set violates it.
C1_ClosedStatusSet ==
    \A i \in DOMAIN df :
        df[i].status \in {S_ATTENDED, S_COMPLETED, S_NOT_ATTENDED, S_OTHER, S_BLANK}

\* C2: a record whose raw status text contains "COMPLETE" has the status
\* COMPLETED, and the Completed KPI and its technician's completed count
\* count it when it is in the filtered set.
C2_CompleteIsCompleted ==
    pc = "rendered" =>
        /\ \A i \in DOMAIN df :
               mentions_complete(raw_status(df[i])) => df[i].status = S_COMPLETED
        /\ kpi.completed >= Len(SelectSeq(dff, LAMBDA r : mentions_complete(raw_status(r))))
        /\ \A t \in DOMAIN rates :
               rates[t].COMPLETED >=
                   Len(SelectSeq(dff, LAMBDA r : r.tech = t /\ mentions_complete(raw_status(r))))

\* C3: the counts of the status breakdown handed to the pie chart add up to
\* the number of records in the filtered set.
C3_PieCountsSumToFiltered ==
    pc = "rendered" => total(status_counts) = Len(dff)

\* C3 seen at work: the frame has a BLANK record, the user's status
\* selection leaves statuses out, and a record got through the filter.
C3_Witness ==
    /\ pc = "rendered"
    /\ \E i \in DOMAIN df : df[i].status = S_BLANK
    /\ Len(sel_statuses) < Len(status_options(df))
    /\ Len(dff) >= 1
    /\ Len(dff) < Len(df)

\* The session of a dropdown over opts with the search text q in which
\* every key exists, "All" is as given and exactly the options on are checked.
session_with(opts, all, on, q) ==
    [has_all |-> TRUE, all |-> all, keys |-> Range(opts), on |-> on, q |-> q]

none_checked(opts, q) ==
    dropdown_checkbox_filter(opts, TRUE, session_with(opts, FALSE, {}, q)).ret

every_checked(opts, q) ==
    dropdown_checkbox_filter(opts, TRUE, session_with(opts, FALSE, Range(opts), q)).ret

\* C4: in each of the three dimensions, the dropdown with no option checked
\* gives the same filtered set as the dropdown with every option checked,
\* the search text and the other filter inputs being the same.
C4_NoneCheckedIsAllChecked ==
    pc = "rendered" =>
        \A q \in Searches :
            /\ filtered(df, none_checked(customer_options(df), q),
                        sel_techs, sel_statuses, d1, d2)
               = filtered(df, every_checked(customer_options(df), q),
                          sel_techs, sel_statuses, d1, d2)
            /\ sel_techs # NoList =>
                  filtered(df, sel_customers, none_checked(tech_options(df), q),
                           sel_statuses, d1, d2)
                  = filtered(df, sel_customers, every_checked(tech_options(df), q),
                             sel_statuses, d1, d2)
            /\ filtered(df, sel_customers, sel_techs,
                        none_checked(status_options(df), q), d1, d2)
               = filtered(df, sel_customers, sel_techs,
                          every_checked(status_options(df), q), d1, d2)

----------------------------------------------------------------------------
(* One dropdown on its own: the user types in its search box, toggles      *)
(* "All" and toggles the checkboxes it shows, and every interaction runs   *)
(* dropdown_checkbox_filter again on the session state.                    *)

MaxOptions == 3

\* Lists of at most n different members of S.
DistinctSeqs(S, n) ==
    {l \in SeqsUpTo(S, n) : \A i, j \in DOMAIN l : i # j => l[i] # l[j]}

\* The session a run starts from.  A checkbox the last run did not render
\* is a widget the framework may have forgotten, key and value.
before_run(st) ==
    {st, [st EXCEPT !.keys = @ \cap Range(visible), !.on = @ \cap Range(visible)]}

Rerun(st) ==
    \E r \in {dropdown_checkbox_filter(options, TRUE, st)} :
        /\ ss' = r.ss
        /\ visible' = r.visible
        /\ selected' = r.ret

FirstRun ==
    /\ ~ss.has_all
    /\ Rerun(ss)
    /\ UNCHANGED <<sheet, page, options>>

TypeSearch ==
    /\ ss.has_all
    /\ \E q \in Searches : \E st \in before_run(ss) : Rerun([st EXCEPT !.q = q])
    /\ UNCHANGED <<sheet, page, options>>

ToggleAll ==
    /\ ss.has_all
    /\ \E st \in before_run(ss) : Rerun([st EXCEPT !.all = ~@])
    /\ UNCHANGED <<sheet, page, options>>

ToggleOption ==
    /\ ss.has_all
    /\ \E o \in Range(visible) : \E st \in before_run(ss) :
           Rerun([st EXCEPT !.on = IF o \in @ THEN @ \ {o} ELSE @ \cup {o}])
    /\ UNCHANGED <<sheet, page, options>>

NextWidget == FirstRun \/ TypeSearch \/ ToggleAll \/ ToggleOption

NoSheet == [columns |-> {}, rows |-> <<>>]

InitWidget ==
    /\ sheet = NoSheet
    /\ Fresh
    /\ options \in DistinctSeqs({T_Acme, T_bolt, T_Zed, None}, MaxOptions)
    /\ ss = EmptySession
    /\ visible = <<>>
    /\ selected = <<>>

SpecWidget == InitWidget /\ [][NextWidget]_vars

\* C8: after any sequence of searches and toggles the dropdown returns
\* exactly the checked options, hidden by the search text or not, and the
\* full option list when none is checked.
C8_ReturnsCheckedOptions ==
    ss.has_all =>
        LET on == SelectSeq(sorted_options(options),
                            LAMBDA o : o \in checked(options, TRUE, ss))
        IN  selected = IF on # <<>> THEN on ELSE sorted_options(options)

----------------------------------------------------------------------------
(* Records without a customer or a technician. *)

\* Sheets with undated rows, blank customers and missing technicians.
InitBlank ==
    /\ sheet \in Sheets({FullColumns},
                        {NaT, <<2026, 1, 15>>},
                        {T_Spaces, T_Acme},
                        {T_Attended},
                        {NaN, T_Ann},
                        MaxRows)
    /\ Fresh
    /\ NoWidget

SpecBlank == InitBlank /\ [][Next]_vars

\* C10 as stated: whenever a loaded record has a non-empty customer, no
\* record without a customer is in the filtered set; likewise for the
\* technician when its column resolves.
C10_NoBlankInFiltered_AsStated ==
    pc = "rendered" =>
        /\ (\E i \in DOMAIN sheet.rows : normalize_text(sheet.rows[i].customer) # None)
               => \A j \in DOMAIN dff : dff[j].customer # None
        /\ (/\ sel_techs # NoList
            /\ \E i \in DOMAIN sheet.rows : normalize_text(sheet.rows[i].tech) # None)
               => \A j \in DOMAIN dff : dff[j].tech # None

\* C10, amended: whenever a loaded record with a parseable date has a
\* non-empty customer, no record without a customer is in the filtered set,
\* whatever is selected; likewise for the technician when its column resolves.
C10_NoBlankInFiltered ==
    pc = "rendered" =>
        /\ (\E i \in DOMAIN sheet.rows :
                /\ sheet.rows[i].date # NaT
                /\ normalize_text(sheet.rows[i].customer) # None)
               => \A j \in DOMAIN dff : dff[j].customer # None
        /\ (/\ sel_techs # NoList
            /\ \E i \in DOMAIN sheet.rows :
                   /\ sheet.rows[i].date # NaT
                   /\ normalize_text(sheet.rows[i].tech) # None)
               => \A j \in DOMAIN dff : dff[j].tech # None

\* C10 seen at work: the frame has a record without a customer next to one
\* with a customer, and the filter let a record through.
C10_Witness ==
    /\ pc = "rendered"
    /\ \E i \in DOMAIN df : df[i].customer = None
    /\ \E i \in DOMAIN df : df[i].customer # None
    /\ dff # <<>>

----------------------------------------------------------------------------
(* The headers of the sheet. *)

Headers == {H_Date, H_CallDate, H_Customer, H_Client, H_CallStatus, H_Status, H_Tech1}

InitCols ==
    /\ sheet \in Sheets(SUBSET Headers,
                        {<<2026, 1, 15>>},
                        {T_Acme},
                        {T_Attended},
                        {T_Ann},
                        MaxRows)
    /\ Fresh
    /\ NoWidget

SpecCols == InitCols /\ [][Next]_vars

\* The required fields that no header of the sheet matches, by its
\* normalised name or by an alias.
unmatched ==
    {w \in {S_DATE, S_CUSTOMER, S_CALL_STATUS} :
        ~\E c \in sheet.columns :
            \/ norm_name(c) = w
            \/ \E i \in DOMAIN aliases(w) : norm_name(c) = norm_name(aliases(w)[i])}

\* C6: when a required field (date, customer, status) matches no header the
\* run shows the error with the missing names and the available headers and
\* stops with nothing else on the page; when all three match it does not stop.
C6_StopsIffRequiredMissing ==
    pc # "idle" =>
        /\ unmatched # {} =>
              /\ pc = "stopped"
              /\ Range(error.missing) = unmatched
              /\ error.available = {norm_name(c) : c \in sheet.columns}
              /\ NothingRendered
        /\ unmatched = {} => pc # "stopped" /\ error = NoError

\* C6 seen at work: date and customer resolve through aliases, the status
\* has no header, and the run stopped on it.
C6_Witness ==
    /\ pc = "stopped"
    /\ sheet.columns = {H_CallDate, H_Client, H_Tech1}
    /\ error.missing = <<S_CALL_STATUS>>

----------------------------------------------------------------------------
(* The technician leaderboard. *)

MaxRankRows == 3

InitRank ==
    /\ sheet \in Sheets({FullColumns},
                        {<<2026, 1, 15>>},
                        {T_Acme},
                        {T_completed, T_Attended},
                        {T_Ann, T_Bob},
                        MaxRankRows)
    /\ Fresh
    /\ NoWidget

SpecRank == InitRank /\ [][Next]_vars

\* C5: the leaderboard lists the technicians by completion rate, highest
\* first, and two technicians with the same rate by their COMPLETED count,
\* highest first.
C5_RateThenCompletedCount ==
    pc = "rendered" =>
        \A i, j \in DOMAIN order :
            i < j =>
                /\ rate_ge(rates[order[i]], rates[order[j]])
                /\ rate_ge(rates[order[j]], rates[order[i]])
                       => rates[order[i]].COMPLETED >= rates[order[j]].COMPLETED

----------------------------------------------------------------------------
(* The Month view of the trend. *)

InitMonth ==
    /\ sheet \in Sheets({FullColumns},
                        {<<2025, 2, 10>>, <<2025, 4, 5>>, <<2026, 2, 20>>},
                        {T_Acme},
                        {T_Attended},
                        {T_Ann},
                        MaxRows)
    /\ Fresh
    /\ NoWidget

SpecMonth == InitMonth /\ [][Next]_vars

\* year and month of a before year and month of b
month_before(a, b) == a[1] < b[1] \/ (a[1] = b[1] /\ a[2] < b[2])

\* C7: in Month view two records share a bucket only when they have the
\* year and the month in common, so the same month of two years gives two
\* buckets; the axis lists each bucket once, by year and then month, while
\* the tick text of a bucket is its abbreviated month name.
C7_MonthBucketsByYearMonth ==
    (pc = "rendered" /\ trend_mode = "Month") =>
        /\ \A i, j \in DOMAIN tmp :
               tmp[i].PERIOD = tmp[j].PERIOD
                   <=> (tmp[i].date[1] = tmp[j].date[1] /\ tmp[i].date[2] = tmp[j].date[2])
        /\ Range(xorder) = {tmp[i].PERIOD : i \in DOMAIN tmp}
        /\ \A m, n \in DOMAIN xorder :
               m < n => \A i, j \in DOMAIN tmp :
                   (tmp[i].PERIOD = xorder[m] /\ tmp[j].PERIOD = xorder[n])
                       => month_before(tmp[i].date, tmp[j].date)
        /\ DOMAIN ticktext = DOMAIN xorder
        /\ \A m \in DOMAIN xorder : \A i \in DOMAIN tmp :
               tmp[i].PERIOD = xorder[m] => ticktext[m] = month_abbr[tmp[i].date[2]]

\* C7 seen at work: the Month view shows two buckets with the same tick
\* text, the same month of two years.
C7_Witness ==
    /\ pc = "rendered"
    /\ trend_mode = "Month"
    /\ Len(xorder) = 2
    /\ ticktext[1] = ticktext[2]

====
